---- MODULE Spec2Model ----
(***************************************************************************)
(* TrendFront (src/main.py): a Flask health endpoint, a scheduler loop,    *)
(* a fetch cycle that upserts the Reddit front page into the "posts"       *)
(* table and an analysis cycle that rescores the posts fetched during the  *)
(* last 24 hours.                                                          *)
(*                                                                         *)
(* Time is counted in minutes since the process started.  A Python value   *)
(* that may be an exception is a record [kind, ...]: kind "return" with a  *)
(* value, kind "None", or kind "raise" with the exception's type.  A float *)
(* quotient a / b is kept exact as the pair <<a, b>>.  The descriptive     *)
(* columns (title, linked_page_title, linked_page_url, subreddit_name) are *)
(* copied from the submission and read by no operation; they are left out  *)
(* of the rows.                                                            *)
(***************************************************************************)
EXTENDS Integers, Sequences, FiniteSets

VARIABLES pc, now, sleeps, store, nextFetch, nextAnalysis, lastUpserted,
          lastRun, fnIn, fnOut

vars == <<pc, now, sleeps, store, nextFetch, nextAnalysis, lastUpserted,
          lastRun, fnIn, fnOut>>

(***************************************************************************)
(* Bounds of the model.                                                    *)
(***************************************************************************)
MaxSleeps == 2
MaxWindow == 3
MaxUpvotes == 2
MaxComments == 2

(***************************************************************************)
(* Constants of the program.                                               *)
(***************************************************************************)
FrontPageLimit == 10
FetchEveryMinutes == 10
MinutesPerHour == 60
WindowHours == 24
DecayHours == 24
UpvoteWeightTenths == 7
CommentWeightTenths == 3
RetrySleepMinutes == 1

\* the submissions that may show on the front page
PostIds == {1, 2}
PyNone == "<None>"
NotScheduled == -1

(***************************************************************************)
(* Python values and exceptions.                                           *)
(***************************************************************************)
Returned(v) == [kind |-> "return", value |-> v]
Raised(e) == [kind |-> "raise", exc |-> e]
NoneResult == [kind |-> "None"]

\* a / b on numbers: a float, or ZeroDivisionError
TrueDiv(a, b) == IF b = 0 THEN Raised("ZeroDivisionError") ELSE Returned(<<a, b>>)

\* a score column that holds null
NullScore == [kind |-> "null"]

\* getattr(s, a) succeeds
HasAttr(s, a) == a \in DOMAIN s

\* bool(x) is False for None and for the empty string
Falsy(x) == x \in {PyNone, ""}

SetMin(S) == CHOOSE x \in S : \A y \in S : x <= y
SetMax(S) == CHOOSE x \in S : \A y \in S : x >= y
SeqRange(s) == {s[i] : i \in 1..Len(s)}
Orderings(S) == {f \in [1..Cardinality(S) -> S] : \A i, j \in 1..Cardinality(S) : f[i] = f[j] => i = j}

(***************************************************************************)
(* process_submission                                                      *)
(***************************************************************************)
\* the attributes read after the exclusion test
RecordAttrs == {"id", "score", "num_comments", "created_utc"}

\* the ratio without its guard on the comment count
ratio_unguarded(score, num_comments) == TrueDiv(score, num_comments)

upvote_to_comment_ratio(score, num_comments) ==
  IF num_comments > 0 THEN TrueDiv(score, num_comments) ELSE Returned(<<0, 1>>)

\* the submission is excluded: a self post, or no link
Excluded(s) == s.is_self \/ Falsy(s.url)

process_submission(s, t) ==
  IF ~HasAttr(s, "is_self") THEN Raised("AttributeError")
  ELSE IF s.is_self THEN NoneResult
  ELSE IF ~HasAttr(s, "url") THEN Raised("AttributeError")
  ELSE IF Excluded(s) THEN NoneResult
  ELSE IF ~(RecordAttrs \subseteq DOMAIN s) THEN Raised("AttributeError")
  ELSE LET ratio == upvote_to_comment_ratio(s.score, s.num_comments)
       IN IF ratio.kind = "raise" THEN ratio
          ELSE Returned([post_id |-> s.id,
                         upvotes |-> s.score,
                         comments_count |-> s.num_comments,
                         upvote_to_comment_ratio |-> ratio.value,
                         timestamp |-> s.created_utc,
                         fetch_time |-> t,
                         score |-> NullScore])

(***************************************************************************)
(* The "posts" table: a set of rows, keyed by post_id.                     *)
(***************************************************************************)
\* an insert that keeps the rows it finds
InsertOnly(st, posts_data) == st \cup posts_data

\* supabase.table("posts").upsert(posts_data): a row with the key of a given
\* record is replaced by the record, every column of it; the rest is inserted
Upsert(st, posts_data) ==
  {r \in st : \A p \in posts_data : p.post_id # r.post_id} \cup posts_data

\* supabase.table("posts").update({"score": score}).eq("post_id", post_id)
Update(st, post_id, score) ==
  {IF r.post_id = post_id THEN [r EXCEPT !.score = score] ELSE r : r \in st}

\* time_window = current_time - timedelta(hours=24)
WindowStart(t) == t - WindowHours * MinutesPerHour

\* the window without its first instant
InWindowStrict(st, t) == {r \in st : r.fetch_time > WindowStart(t)}

\* .gte("fetch_time", time_window.isoformat())
InWindow(st, t) == {r \in st : r.fetch_time >= WindowStart(t)}

\* .select("post_id, upvotes, comments_count, timestamp")
Selected(r) == [post_id |-> r.post_id, upvotes |-> r.upvotes,
                comments_count |-> r.comments_count, timestamp |-> r.timestamp]

(***************************************************************************)
(* fetch_data and ten_min_fetch                                            *)
(***************************************************************************)
\* what one run of a scheduled task did
RunRecord(task, t) ==
  [task |-> task, at |-> t, fault |-> "none", exc |-> "none",
   caught_by |-> "none", propagated |-> FALSE, transformed |-> {},
   malformed |-> {}, window |-> {}, attempted |-> <<>>]

NoRun == RunRecord("none", 0)

\* fault: "none", "source" (reddit.front.hot fails) or "upsert" (the store call
\* fails); listing: the submissions of the front page, by id
fetch_data(st, t, fault, listing) ==
  LET results == [id \in DOMAIN listing |-> process_submission(listing[id], t)]
      raising == {id \in DOMAIN listing : results[id].kind = "raise"}
      kept == {id \in DOMAIN listing : results[id].kind = "return"}
      posts_data == {results[id].value : id \in kept}
      run == [RunRecord("ten_min_fetch", t) EXCEPT !.malformed = raising,
                                                   !.transformed = kept]
  IN IF fault = "source"
       THEN [store |-> st, run |-> [RunRecord("ten_min_fetch", t) EXCEPT
                                      !.fault = "source", !.exc = "RequestException"]]
     ELSE IF raising # {}
       THEN [store |-> st, run |-> [run EXCEPT !.exc = results[SetMin(raising)].exc]]
     ELSE IF posts_data = {}
       THEN [store |-> st, run |-> run]
     ELSE IF fault = "upsert"
       THEN [store |-> st, run |-> [run EXCEPT !.fault = "upsert", !.exc = "APIError"]]
     ELSE [store |-> Upsert(st, posts_data), run |-> run]

\* fetch_data() called without the try around it
ten_min_fetch_no_try(st, t, fault, listing) ==
  LET r == fetch_data(st, t, fault, listing)
  IN [r EXCEPT !.run.propagated = (r.run.exc # "none")]

\* try: fetch_data() except Exception: log

ten_min_fetch(st, t, fault, listing) ==
  LET r == fetch_data(st, t, fault, listing)
  IN [r EXCEPT !.run.caught_by = IF r.run.exc # "none" THEN "ten_min_fetch" ELSE "none"]

(***************************************************************************)
(* retrieve_last_24h_posts, analyze_data and hourly_analysis               *)
(***************************************************************************)
\* order: the rows of the window in the order the store returns them
retrieve_last_24h_posts(st, t, queryFails, order) ==
  IF queryFails THEN Raised("APIError")
  ELSE IF InWindow(st, t) = {} THEN NoneResult
  ELSE Returned([data |-> [i \in 1..Len(order) |-> Selected(order[i])],
                 current_time |-> t])

\* the range without its guard against equal extremes
range_unguarded(u_max, u_min) == u_max - u_min

upvote_range(u_max, u_min) == IF u_max # u_min THEN u_max - u_min ELSE 1
comment_range(c_max, c_min) == IF c_max # c_min THEN c_max - c_min ELSE 1

\* norm_upvotes and norm_comments of every record of data
Norms(data) ==
  LET upvotes == [i \in 1..Len(data) |-> data[i].upvotes]
      comments == [i \in 1..Len(data) |-> data[i].comments_count]
      u_min == SetMin(SeqRange(upvotes))
      u_max == SetMax(SeqRange(upvotes))
      c_min == SetMin(SeqRange(comments))
      c_max == SetMax(SeqRange(comments))
  IN [i \in 1..Len(data) |->
        [norm_upvotes |-> TrueDiv(upvotes[i] - u_min, upvote_range(u_max, u_min)),
         norm_comments |-> TrueDiv(comments[i] - c_min, comment_range(c_max, c_min))]]

\* (0.7 * norm_upvotes + 0.3 * norm_comments) * exp(-age / 24), age in hours: the
\* weighted sum as an exact quotient, and the age the decay is taken of
Score(nu, nc, age_minutes) ==
  [kind |-> "float",
   weighted |-> <<UpvoteWeightTenths * nu[1] * nc[2] + CommentWeightTenths * nc[1] * nu[2],
                  10 * nu[2] * nc[2]>>,
   age_minutes |-> age_minutes,
   decay_hours |-> DecayHours]

RECURSIVE ApplyUpdates(_, _, _)
ApplyUpdates(st, ups, k) ==
  IF k = 0 THEN st
  ELSE Update(ApplyUpdates(st, ups, k - 1), ups[k].post_id, ups[k].score)

\* failAt: the index of the record whose update call fails, 0 when none does
analyze_data(st, data, t, failAt) ==
  LET n == Len(data)
      norms == Norms(data)
      normFails == {i \in 1..n : norms[i].norm_upvotes.kind = "raise"
                                 \/ norms[i].norm_comments.kind = "raise"}
      firstNormFail == IF normFails = {} THEN n + 1 ELSE SetMin(normFails)
      updateFail == IF failAt \in 1..n THEN failAt ELSE n + 1
      stop == IF updateFail < firstNormFail THEN updateFail ELSE firstNormFail
      ups == [i \in 1..(stop - 1) |->
                [post_id |-> data[i].post_id,
                 score |-> Score(norms[i].norm_upvotes.value, norms[i].norm_comments.value,
                                 t - data[i].timestamp)]]
      attempted == [i \in 1..(IF updateFail < firstNormFail THEN stop ELSE stop - 1) |->
                      data[i].post_id]
      run == [RunRecord("hourly_analysis", t) EXCEPT
                !.window = {data[i].post_id : i \in 1..n}, !.attempted = attempted]
  IN [store |-> ApplyUpdates(st, ups, stop - 1),
      run |-> IF stop = n + 1 THEN run
              ELSE IF updateFail < firstNormFail
                THEN [run EXCEPT !.fault = "update", !.exc = "APIError",
                                 !.caught_by = "analyze_data"]
              ELSE [run EXCEPT !.exc = "ZeroDivisionError", !.caught_by = "analyze_data"]]

hourly_analysis(st, t, queryFails, order, failAt) ==
  LET got == retrieve_last_24h_posts(st, t, queryFails, order)
  IN IF got.kind = "raise"
       THEN [store |-> st, run |-> [RunRecord("hourly_analysis", t) EXCEPT
                                      !.fault = "query", !.exc = got.exc,
                                      !.caught_by = "hourly_analysis"]]
     ELSE IF got.kind = "None"
       \* data, current_time = None
       THEN [store |-> st, run |-> [RunRecord("hourly_analysis", t) EXCEPT
                                      !.exc = "TypeError",
                                      !.caught_by = "hourly_analysis"]]
     ELSE analyze_data(st, got.value.data, got.value.current_time, failAt)

(***************************************************************************)
(* The front page: what reddit.front.hot(limit=10) returns.                *)
(***************************************************************************)
\* created_utc never changes for a submission; some are older than the process
CreatedAt(id) == 10 * id - 20

LinkItem(id, score, num_comments) ==
  [id |-> id, is_self |-> FALSE, url |-> "https://example.com/page",
   score |-> score, num_comments |-> num_comments, created_utc |-> CreatedAt(id)]

SelfItem(id) == [LinkItem(id, 1, 1) EXCEPT !.is_self = TRUE,
                                           !.url = "https://reddit.com/r/x/comments/1"]

NoLinkItem(id) == [LinkItem(id, 1, 1) EXCEPT !.url = ""]

\* a submission without its num_comments attribute
MalformedItem(id) ==
  [id |-> id, is_self |-> FALSE, url |-> "https://example.com/page",
   score |-> 1, created_utc |-> CreatedAt(id)]

SourceItems(id) ==
  {LinkItem(id, -1, 0), LinkItem(id, 2, 2), SelfItem(id), NoLinkItem(id), MalformedItem(id)}

\* at most FrontPageLimit submissions, each id once
Listings ==
  UNION {{f \in [S -> UNION {SourceItems(id) : id \in S}] : \A id \in S : f[id].id = id} :
         S \in {T \in SUBSET PostIds : Cardinality(T) <= FrontPageLimit}}

FetchFaults == {"none", "source", "upsert"}

(***************************************************************************)
(* The scheduler (the schedule library) and the clock.                     *)
(***************************************************************************)
\* every().hour.at(":00"): the next full hour after t
NextHour(t) == ((t \div MinutesPerHour) + 1) * MinutesPerHour

\* job.should_run
Due(next_run) == next_run # NotScheduled /\ next_run <= now

\* run_pending runs the due jobs sorted by next_run, the first registered first
FetchGoesFirst == Due(nextFetch) /\ (Due(nextAnalysis) => nextFetch <= nextAnalysis)
AnalysisGoesFirst == Due(nextAnalysis) /\ (Due(nextFetch) => nextAnalysis < nextFetch)

\* the time that passes between two looks at the clock: ten minutes or a day
\* (a blocked call or a suspended process lets any time pass)
ClockSteps == {FetchEveryMinutes, WindowHours * MinutesPerHour}

NoValue == [kind |-> "none"]

\* the upvotes and comments of the records the fetch cycles upserted, the latest
\* cycle of each post_id; refetched: that cycle found other upvotes than the one before
UpsertedBy(run, listing, before) ==
  IF run.exc # "none" THEN before
  ELSE [id \in DOMAIN before \cup run.transformed |->
          IF id \in run.transformed
            THEN [upvotes |-> listing[id].score,
                  comments_count |-> listing[id].num_comments,
                  refetched |-> id \in DOMAIN before /\ before[id].upvotes # listing[id].score]
            ELSE before[id]]

Init ==
  /\ pc = "main"
  /\ now = 0
  /\ sleeps = 0
  /\ store = {}
  /\ nextFetch = NotScheduled
  /\ nextAnalysis = NotScheduled
  /\ lastUpserted = <<>>
  /\ lastRun = NoRun
  /\ fnIn = NoValue
  /\ fnOut = NoValue

\* if __name__ == "__main__": run_flask()
Main ==
  /\ pc = "main"
  /\ pc' = "run_flask"
  /\ UNCHANGED <<now, sleeps, store, nextFetch, nextAnalysis, lastUpserted, lastRun, fnIn, fnOut>>

HealthResponse == <<[status |-> "healthy"], 200>>

\* GET /health while app.run serves: nothing of the pipeline is read or written
health_check ==
  /\ pc = "run_flask"
  /\ HealthResponse[2] = 200
  /\ UNCHANGED vars

\* app.run returns only when the server is stopped from outside
FlaskStops ==
  /\ pc = "run_flask"
  /\ pc' = "run_scheduler"
  /\ UNCHANGED <<now, sleeps, store, nextFetch, nextAnalysis, lastUpserted, lastRun, fnIn, fnOut>>

\* run_scheduler: the two jobs are registered
ScheduleJobs ==
  /\ pc = "run_scheduler"
  /\ nextFetch' = now + FetchEveryMinutes
  /\ nextAnalysis' = NextHour(now)
  /\ pc' = "initial_fetch"
  /\ UNCHANGED <<now, sleeps, store, lastUpserted, lastRun, fnIn, fnOut>>

\* run_scheduler: ten_min_fetch() before the loop, outside its try
InitialFetch ==
  /\ pc = "initial_fetch"
  /\ \E fault \in FetchFaults, listing \in Listings :
       LET r == ten_min_fetch(store, now, fault, listing)
       IN /\ store' = r.store
          /\ lastRun' = r.run
          /\ lastUpserted' = UpsertedBy(r.run, listing, lastUpserted)
          /\ pc' = IF r.run.propagated THEN "crashed" ELSE "loop"
  /\ UNCHANGED <<now, sleeps, nextFetch, nextAnalysis, fnIn, fnOut>>

\* run_pending runs the fetch job; a job that raises is not rescheduled, and the
\* loop logs and sleeps before it looks again
RunFetchJob ==
  /\ pc = "loop"
  /\ FetchGoesFirst
  /\ \E fault \in FetchFaults, listing \in Listings :
       LET r == ten_min_fetch(store, now, fault, listing)
       IN /\ store' = r.store
          /\ lastRun' = r.run
          /\ lastUpserted' = UpsertedBy(r.run, listing, lastUpserted)
          /\ nextFetch' = IF r.run.propagated THEN nextFetch ELSE now + FetchEveryMinutes
          /\ now' = IF r.run.propagated THEN now + RetrySleepMinutes ELSE now
  /\ UNCHANGED <<pc, sleeps, nextAnalysis, fnIn, fnOut>>

\* run_pending runs the analysis job
RunAnalysisJob ==
  /\ pc = "loop"
  /\ AnalysisGoesFirst
  /\ \E queryFails \in BOOLEAN, order \in Orderings(InWindow(store, now)),
        failAt \in 0..Cardinality(InWindow(store, now)) :
       LET r == hourly_analysis(store, now, queryFails, order, failAt)
       IN /\ store' = r.store
          /\ lastRun' = r.run
          /\ nextAnalysis' = IF r.run.propagated THEN nextAnalysis ELSE NextHour(now)
          /\ now' = IF r.run.propagated THEN now + RetrySleepMinutes ELSE now
  /\ UNCHANGED <<pc, sleeps, nextFetch, lastUpserted, fnIn, fnOut>>

\* time.sleep(1) until a job is due
Sleep ==
  /\ pc = "loop"
  /\ ~Due(nextFetch) /\ ~Due(nextAnalysis)
  /\ sleeps < MaxSleeps
  /\ \E d \in ClockSteps : now' = now + d
  /\ sleeps' = sleeps + 1
  /\ UNCHANGED <<pc, store, nextFetch, nextAnalysis, lastUpserted, lastRun, fnIn, fnOut>>

Next ==
  \/ Main
  \/ health_check
  \/ FlaskStops
  \/ ScheduleJobs
  \/ InitialFetch
  \/ RunFetchJob
  \/ RunAnalysisJob
  \/ Sleep

Spec == Init /\ [][Next]_vars

\* the scheduler's own steps are taken when they can be; the server is stopped
\* only from outside
FairSpec ==
  Spec /\ WF_vars(Main \/ ScheduleJobs \/ InitialFetch \/ RunFetchJob \/ RunAnalysisJob \/ Sleep)

(***************************************************************************)
(* process_submission on its own, over every submission of a bounded set.  *)
(***************************************************************************)
Without(s, a) == [f \in DOMAIN s \ {a} |-> s[f]]

\* submissions with every attribute, the link empty, None or set
CompleteSubmissions ==
  [id : {1}, is_self : BOOLEAN, url : {PyNone, "", "https://example.com/page"},
   score : (-MaxUpvotes)..MaxUpvotes, num_comments : 0..MaxComments, created_utc : {0}]

\* and those that lack one
TransformInputs ==
  CompleteSubmissions
    \cup {Without(s, a) : s \in CompleteSubmissions, a \in {"is_self", "url", "num_comments"}}

InitTransform ==
  /\ pc = "process_submission"
  /\ fnIn \in {[kind |-> "submission", value |-> s] : s \in TransformInputs}
  /\ fnOut = NoValue
  /\ now = 0
  /\ sleeps = 0
  /\ store = {}
  /\ nextFetch = NotScheduled
  /\ nextAnalysis = NotScheduled
  /\ lastUpserted = <<>>
  /\ lastRun = NoRun

Transform ==
  /\ pc = "process_submission"
  /\ fnOut = NoValue
  /\ fnOut' = [kind |-> "result", value |-> process_submission(fnIn.value, now)]
  /\ UNCHANGED <<pc, now, sleeps, store, nextFetch, nextAnalysis, lastUpserted, lastRun, fnIn>>

SpecTransform == InitTransform /\ [][Transform]_vars

(***************************************************************************)
(* The normalisation of analyze_data on its own, over every window of a    *)
(* bounded set.                                                            *)
(***************************************************************************)
WindowRows(n) ==
  {d \in [1..n -> [post_id : 1..n, upvotes : (-1)..MaxUpvotes,
                   comments_count : {0, 1, MaxComments}, timestamp : {0}]] :
     \A i \in 1..n : d[i].post_id = i}

NormInputs == UNION {WindowRows(n) : n \in 1..MaxWindow}

InitNorm ==
  /\ pc = "analyze_data"
  /\ fnIn \in {[kind |-> "window", value |-> d] : d \in NormInputs}
  /\ fnOut = NoValue
  /\ now = 0
  /\ sleeps = 0
  /\ store = {}
  /\ nextFetch = NotScheduled
  /\ nextAnalysis = NotScheduled
  /\ lastUpserted = <<>>
  /\ lastRun = NoRun

Normalise ==
  /\ pc = "analyze_data"
  /\ fnOut = NoValue
  /\ fnOut' = [kind |-> "norms", value |-> Norms(fnIn.value)]
  /\ UNCHANGED <<pc, now, sleeps, store, nextFetch, nextAnalysis, lastUpserted, lastRun, fnIn>>

SpecNorm == InitNorm /\ [][Normalise]_vars

(***************************************************************************)
(* Properties.                                                             *)
(***************************************************************************)
\* C1: once the program is started through its entry point, the scheduler's
\* initial fetch eventually runs and the driving loop is then entered.
C1_StartLeadsToInitialFetchAndLoop ==
  (pc = "main") ~> (pc = "loop" /\ lastRun.task = "ten_min_fetch")

\* C2: no failure inside a fetch cycle or an analysis cycle leaves the scheduled
\* task: the task returns normally, the process has not crashed, and the job is
\* scheduled again for a later time.
C2_TaskFailuresContained ==
  /\ pc # "crashed"
  /\ lastRun.task # "none" =>
       /\ ~lastRun.propagated
       /\ lastRun.exc # "none" =>
            lastRun.caught_by \in {"ten_min_fetch", "hourly_analysis", "analyze_data"}
       /\ pc = "loop"
       /\ lastRun.task = "ten_min_fetch" => nextFetch > lastRun.at
       /\ lastRun.task = "hourly_analysis" => nextAnalysis > lastRun.at

\* a fetch cycle in which the store call failed has ended and the loop goes on
C2_Witness ==
  /\ lastRun.task = "ten_min_fetch"
  /\ lastRun.fault = "upsert"
  /\ lastRun.at > 0
  /\ pc = "loop"

\* C3: the store holds at most one row per post_id, and the row of a post_id
\* carries the upvotes and the comment count of the latest fetch cycle that
\* upserted it.
C3_OneRowPerPostWithLatestValues ==
  /\ \A r1, r2 \in store : r1.post_id = r2.post_id => r1 = r2
  /\ \A id \in DOMAIN lastUpserted :
       \E r \in store : /\ r.post_id = id
                        /\ r.upvotes = lastUpserted[id].upvotes
                        /\ r.comments_count = lastUpserted[id].comments_count

\* a post_id was upserted again with other upvotes
C3_Witness ==
  \E id \in DOMAIN lastUpserted :
    /\ lastUpserted[id].refetched
    /\ \E r \in store : r.post_id = id /\ r.upvotes = lastUpserted[id].upvotes

\* C4: a fetch cycle leaves the stored score of every row it finds unchanged.
C4_FetchKeepsStoredScore ==
  [][lastRun'.task = "ten_min_fetch" =>
       \A r \in store : \A q \in store' : q.post_id = r.post_id => q.score = r.score]_vars

\* C5: an analysis cycle that finds no row in the window raises nothing and
\* ends without an error.
C5_EmptyWindowIsNoError ==
  (lastRun.task = "hourly_analysis" /\ lastRun.fault = "none" /\ lastRun.window = {})
    => (lastRun.exc = "none" /\ lastRun.caught_by = "none")

\* C6: when the update of one row's score fails, the update of every other row
\* of the window is still attempted in that cycle.
C6_UpdateFailureDoesNotStopTheRest ==
  (lastRun.task = "hourly_analysis" /\ lastRun.fault = "update")
    => SeqRange(lastRun.attempted) = lastRun.window

\* C7: a fetch cycle with a submission that lacks an attribute still upserts
\* every other submission that is not excluded.
C7_MalformedItemDoesNotAbortBatch ==
  (lastRun.task = "ten_min_fetch" /\ lastRun.fault = "none" /\ lastRun.malformed # {})
    => \A id \in lastRun.transformed :
         \E r \in store : r.post_id = id /\ r.fetch_time = lastRun.at

\* C8: in a non-empty window every normalised upvote and comment value is a
\* quotient in [0, 1]; the row with the least upvotes gets 0 and the one with the
\* most gets 1 when the two differ, and a dimension in which all rows agree gets 0
\* for every row, without a division error.
C8_NormsInUnitInterval ==
  fnOut.kind = "norms" =>
    LET data == fnIn.value
        ups == {data[i].upvotes : i \in 1..Len(data)}
        coms == {data[i].comments_count : i \in 1..Len(data)}
    IN \A i \in 1..Len(data) :
         LET nu == fnOut.value[i].norm_upvotes
             nc == fnOut.value[i].norm_comments
         IN /\ nu.kind = "return" /\ nc.kind = "return"
            /\ nu.value[2] > 0 /\ 0 <= nu.value[1] /\ nu.value[1] <= nu.value[2]
            /\ nc.value[2] > 0 /\ 0 <= nc.value[1] /\ nc.value[1] <= nc.value[2]
            /\ (\A u \in ups : data[i].upvotes <= u) => nu.value[1] = 0
            /\ ((\A u \in ups : data[i].upvotes >= u) /\ Cardinality(ups) > 1)
                 => nu.value[1] = nu.value[2]
            /\ Cardinality(ups) = 1 => nu.value[1] = 0
            /\ Cardinality(coms) = 1 => nc.value[1] = 0

\* three rows, negative upvotes among them, the comment counts all equal
C8_Witness ==
  /\ fnOut.kind = "norms"
  /\ Len(fnIn.value) = 3
  /\ fnIn.value[1].upvotes = -1 /\ fnIn.value[2].upvotes = 0 /\ fnIn.value[3].upvotes = 2
  /\ \A i \in 1..3 : fnIn.value[i].comments_count = 1
  /\ fnOut.value[2].norm_upvotes.value = <<1, 3>>
  /\ fnOut.value[2].norm_comments.value = <<0, 1>>

\* C9: for a submission with all its attributes, process_submission returns None
\* exactly when it is a self post or its link is empty or None; otherwise it
\* returns a record with a null score whose upvote_to_comment_ratio is 0 when
\* there are no comments and score / num_comments when there are.
C9_TransformExclusionAndRatio ==
  (fnOut.kind = "result" /\ fnIn.value \in CompleteSubmissions) =>
    LET s == fnIn.value
        r == fnOut.value
    IN /\ r.kind \in {"None", "return"}
       /\ r.kind = "None" <=> (s.is_self \/ s.url = "" \/ s.url = PyNone)
       /\ r.kind = "return" =>
            /\ r.value.score = NullScore
            /\ r.value.post_id = s.id
            /\ r.value.upvotes = s.score
            /\ r.value.comments_count = s.num_comments
            /\ s.num_comments = 0 => r.value.upvote_to_comment_ratio[1] = 0
            /\ s.num_comments # 0 =>
                 r.value.upvote_to_comment_ratio[1] * s.num_comments
                   = s.score * r.value.upvote_to_comment_ratio[2]
            /\ r.value.upvote_to_comment_ratio[2] # 0

\* a link with negative upvotes and no comments
C9_Witness ==
  /\ fnOut.kind = "result"
  /\ fnIn.value \in CompleteSubmissions
  /\ ~fnIn.value.is_self
  /\ fnIn.value.num_comments = 0
  /\ fnIn.value.score < 0
  /\ fnOut.value.kind = "return"

\* C10: an analysis cycle in which no store call fails issues one score update
\* for each row whose fetch_time is at or after now - 24h, by its post_id, and
\* changes nothing else: the other rows are as they were, the rows of the window
\* differ in their score only, no row is added or removed.
C10_AnalysisUpdatesTheWindowOnly ==
  [][(lastRun' # lastRun /\ lastRun'.task = "hourly_analysis" /\ lastRun'.fault = "none") =>
       LET W == {r \in store : r.fetch_time >= now - 24 * 60}
       IN /\ Len(lastRun'.attempted) = Cardinality(W)
          /\ SeqRange(lastRun'.attempted) = {r.post_id : r \in W}
          /\ \A r \in store \ W : r \in store'
          /\ \A r \in W : \E q \in store' : /\ q.score.kind = "float"
                                            /\ [q EXCEPT !.score = r.score] = r
          /\ Cardinality(store') = Cardinality(store)
          /\ {q.post_id : q \in store'} = {r.post_id : r \in store}]_vars

\* an analysis cycle has scored a row while an older row, scored a day before,
\* lay outside the window
C10_Witness ==
  /\ lastRun.task = "hourly_analysis"
  /\ lastRun.fault = "none"
  /\ Len(lastRun.attempted) >= 1
  /\ \E r \in store : /\ r.fetch_time < lastRun.at - 24 * 60
                      /\ r.score.kind = "float"
                      /\ r.post_id \notin SeqRange(lastRun.attempted)

====
